---- MODULE Spec2Model ----
(***************************************************************************)
(* Universal-profile deployment pipeline of                               *)
(* src/lib/services/universal-profile.service.ts:                         *)
(*   - the permission encoder prepareSetDataParameters,                   *)
(*   - the account deployment stream accountDeployment$,                  *)
(*   - the handoff stream setDataAndTransferOwnershipTransactions$        *)
(*     (setData + transferOwnership, claimOwnership, revoke),             *)
(*   - the rxjs operators the streams are built from (shareReplay,        *)
(*     forkJoin, concat, switchMap), modelled by what they do.            *)
(***************************************************************************)
EXTENDS Integers, Sequences, FiniteSets, TLC

\* ------------------------------------------------------------------ bounds
\* longest controller list given to the encoder and to the handoff (SpecJoined)
MaxControllers == 2
\* subscriptions made to the account stream and to the handoff stream, together
MaxSubscribers == 2
\* invocations of the encoder on one input (SpecEncoder)
MaxInvocations == 2

\* --------------------------------------------------------------- addresses
SignerAddress == "0xSigner"
OtherController == "0xA"
DeployedDelegate == "0xURD"
DefaultDelegate == "0xDefaultURD"
AccountAddress == "0xUP"
KeyManagerAddress == "0xKM"
LibAddress == "0xLib"
\* where a transaction the signer has an identity contract send goes to
RelayAddress == "0xRelay"
NoAddress == ""

\* bytecode argument of the account deployment ("" when none is given)
NoBytecode == ""
CustomBytecode == "0xBytecode"
BytecodeChoices == {NoBytecode, CustomBytecode}

\* ---------------------------------------------------------------- receipts
\* The fields of a transaction receipt the address resolution reads:
\* contractAddress (set by a contract creation only), to, logs[0].address.
\* a contract creation sent by the signer itself
CreationReceipt(a) == [contractAddress |-> a, to |-> NoAddress, logs |-> <<>>]
\* a call sent by the signer itself to contract a, which logs an event
CallReceipt(a) == [contractAddress |-> NoAddress, to |-> a, logs |-> <<a>>]
\* the same call, no event logged
SilentCallReceipt(a) == [contractAddress |-> NoAddress, to |-> a, logs |-> <<>>]
\* a transaction the signer's identity contract sent on: contract a is the
\* emitter of its first log
RelayedReceipt(a) == [contractAddress |-> NoAddress, to |-> RelayAddress, logs |-> <<a>>]

ReceiptShapes(a) == {CreationReceipt(a), CallReceipt(a), SilentCallReceipt(a), RelayedReceipt(a)}

\* JavaScript's a || b on addresses: b is not evaluated when a is truthy
Or(a, b) == IF a # NoAddress THEN a ELSE b
\* receipt.logs[0].address; reading .address of undefined throws
Thrown == "TypeError"
FirstLogAddress(receipt) == IF Len(receipt.logs) > 0 THEN receipt.logs[1] ELSE Thrown

ControllerAddressChoices == {SignerAddress, OtherController}
\* address a delegate receipt can resolve to
DelegateAddressChoices == {DeployedDelegate, SignerAddress}

\* ------------------------------------------------------------- permissions
\* A permission bitmask is the set of the rights whose bit is set;
\* ERC725.encodePermissions maps the set of true flags to the bitmask.
EncodePermissions(rights) == rights

DEFAULT_PERMISSIONS == {"SETDATA", "CALL"}
HandoffPermissions == EncodePermissions({"CHANGEOWNER", "CHANGEPERMISSIONS"})
DelegatePermissions == EncodePermissions({"SUPER_SETDATA"})
EmptyPermissions == EncodePermissions({})

\* bitmasks a caller may ask for in {address, permissions}
PermissionChoices == {EncodePermissions({}), EncodePermissions({"CALL"})}

\* ------------------------------------------------------------- controllers
\* (string | ControllerOptions): a bare address or {address, permissions}
StringController(a) == [kind |-> "string", address |-> a, permissions |-> {}]
ObjectController(a, p) == [kind |-> "object", address |-> a, permissions |-> p]

ControllerChoices ==
    {StringController(a) : a \in ControllerAddressChoices}
        \cup {ObjectController(a, p) : a \in ControllerAddressChoices, p \in PermissionChoices}

ControllerLists == UNION {[1..n -> ControllerChoices] : n \in 0..MaxControllers}

\* the controller lists the whole pipeline (Spec) is run with: none, a bare
\* address, the signer with rights of its own
PipelineControllerLists ==
    {<<>>,
     <<StringController(OtherController)>>,
     <<ObjectController(SignerAddress, EncodePermissions({"CALL"}))>>}

\* ---------------------------------------------------------- keys and values
\* Storage keys. PREFIX_PERMISSIONS + address.substring(2) is one key per
\* address; ADDRESS_PERMISSIONS_ARRAY_KEY.slice(0, 34) + hexZeroPad(index, 16)
\* is one key per index.
UNIVERSAL_RECEIVER_DELEGATE_KEY == [kind |-> "URD", address |-> NoAddress, index |-> 0]
ADDRESS_PERMISSIONS_ARRAY_KEY == [kind |-> "ARRAY", address |-> NoAddress, index |-> 0]
LSP3_PROFILE == [kind |-> "PROFILE", address |-> NoAddress, index |-> 0]
PermissionsKey(a) == [kind |-> "PERMISSIONS", address |-> a, index |-> 0]
ArrayElementKeyUnindexed(i) == [kind |-> "ELEMENT", address |-> NoAddress, index |-> 0]
ArrayElementKey(i) == [kind |-> "ELEMENT", address |-> NoAddress, index |-> i]

NoData == "null"
ProfileChoices == {NoData, "0xProfile"}

AddressValue(a) == [kind |-> "address", address |-> a, rights |-> {}, number |-> 0, data |-> NoData]
PermissionsValue(p) == [kind |-> "permissions", address |-> NoAddress, rights |-> p, number |-> 0, data |-> NoData]
UintValue(n) == [kind |-> "uint256", address |-> NoAddress, rights |-> {}, number |-> n, data |-> NoData]
BytesValue(d) == [kind |-> "bytes", address |-> NoAddress, rights |-> {}, number |-> 0, data |-> d]
NoValue == [kind |-> "unset", address |-> NoAddress, rights |-> {}, number |-> 0, data |-> NoData]

\* Array.prototype.includes / indexOf (0 stands for JavaScript's -1)
Includes(seq, x) == \E i \in 1..Len(seq) : seq[i] = x
IndexOf(seq, x) ==
    IF Includes(seq, x)
    THEN CHOOSE i \in 1..Len(seq) : seq[i] = x /\ \A j \in 1..(i - 1) : seq[j] # x
    ELSE 0

\* --------------------------------------------------------------- encoder
ControllerAddressesOf(controllers) ==
    [i \in 1..Len(controllers) |-> controllers[i].address]

ControllerPermissionsReversed(controllers) ==
    [i \in 1..Len(controllers) |->
        IF controllers[Len(controllers) + 1 - i].kind = "string"
        THEN EncodePermissions(DEFAULT_PERMISSIONS)
        ELSE controllers[Len(controllers) + 1 - i].permissions]
ControllerPermissionsOf(controllers) ==
    [i \in 1..Len(controllers) |->
        IF controllers[i].kind = "string"
        THEN EncodePermissions(DEFAULT_PERMISSIONS)
        ELSE controllers[i].permissions]

\* the permission value the encoder stores for the signer when the signer is
\* one of the controllers
SignerOverwriteKeepRequested(requested) == requested \cup HandoffPermissions
SignerOverwrite(requested) == HandoffPermissions

\* what the encoder appends for a signer that is not one of the controllers
SyntheticSignerNone(signerAddress) == [keys |-> <<>>, values |-> <<>>]
SyntheticSignerEntry(signerAddress) ==
    [keys |-> <<PermissionsKey(signerAddress)>>,
     values |-> <<PermissionsValue(HandoffPermissions)>>]

prepareSetDataParameters(signerAddress, erc725AccountAddress, universalReceiverDelegateAddress, controllers, encodedLSP3Profile) ==
    LET controllerAddresses == ControllerAddressesOf(controllers)
        controllerPermissions == ControllerPermissionsOf(controllers)
        n == Len(controllers)
        addressPermissionsKeys == [i \in 1..n |-> PermissionsKey(controllerAddresses[i])]
        addressPermissionsArrayElements == [i \in 1..n |-> ArrayElementKey(i - 1)]
        universalReceiverPermissionIndex == ArrayElementKey(n)
        keys0 == <<UNIVERSAL_RECEIVER_DELEGATE_KEY,
                   PermissionsKey(universalReceiverDelegateAddress),
                   ADDRESS_PERMISSIONS_ARRAY_KEY>>
                 \o addressPermissionsArrayElements
                 \o addressPermissionsKeys
                 \o <<universalReceiverPermissionIndex>>
        values0 == <<AddressValue(universalReceiverDelegateAddress),
                     PermissionsValue(DelegatePermissions),
                     UintValue(Len(controllerPermissions) + 1)>>
                   \o [i \in 1..n |-> AddressValue(controllerAddresses[i])]
                   \o [i \in 1..n |-> PermissionsValue(controllerPermissions[i])]
                   \o <<AddressValue(universalReceiverDelegateAddress)>>
        signerIndex == IndexOf(keys0, PermissionsKey(signerAddress))
        synthetic == SyntheticSignerEntry(signerAddress)
        keys1 == IF ~Includes(controllerAddresses, signerAddress)
                 THEN keys0 \o synthetic.keys
                 ELSE keys0
        values1 == IF ~Includes(controllerAddresses, signerAddress)
                   THEN values0 \o synthetic.values
                   ELSE [values0 EXCEPT ![signerIndex] =
                            PermissionsValue(SignerOverwrite(values0[signerIndex].rights))]
        keysToSet == IF encodedLSP3Profile # NoData THEN Append(keys1, LSP3_PROFILE) ELSE keys1
        valuesToSet == IF encodedLSP3Profile # NoData
                       THEN Append(values1, BytesValue(encodedLSP3Profile))
                       ELSE values1
    IN [keysToSet |-> keysToSet,
        valuesToSet |-> valuesToSet,
        erc725AccountAddress |-> erc725AccountAddress]

\* the bitmask revokeSignerPermissions writes back for the signer
RevokedPermissionAlwaysEmpty(signerAddress, controllers) == EncodePermissions({})
signerPermissionDefaultWhenAbsent(signerAddress, controllers) ==
    LET controllerAddress == ControllerAddressesOf(controllers)
    IN IF Includes(controllerAddress, signerAddress)
       THEN LET controller == controllers[IndexOf(controllerAddress, signerAddress)]
            IN IF controller.kind = "string"
               THEN EncodePermissions(DEFAULT_PERMISSIONS)
               ELSE controller.permissions
       ELSE EncodePermissions(DEFAULT_PERMISSIONS)
signerPermission(signerAddress, controllers) ==
    LET controllerAddress == ControllerAddressesOf(controllers)
    IN IF Includes(controllerAddress, signerAddress)
       THEN LET controller == controllers[IndexOf(controllerAddress, signerAddress)]
            IN IF controller.kind = "string"
               THEN EncodePermissions(DEFAULT_PERMISSIONS)
               ELSE controller.permissions
       ELSE EncodePermissions({})

\* ------------------------------------------------------------------ chain
StoreAddresses == ControllerAddressChoices \cup DelegateAddressChoices \cup {DefaultDelegate}
StoreKeys ==
    {UNIVERSAL_RECEIVER_DELEGATE_KEY, ADDRESS_PERMISSIONS_ARRAY_KEY, LSP3_PROFILE}
        \cup {PermissionsKey(a) : a \in StoreAddresses}
        \cup {ArrayElementKey(i) : i \in 0..MaxControllers}
EmptyStore == [k \in StoreKeys |-> NoValue]

\* setData(bytes32[], bytes[]) on the account: the pairs are written in
\* sequence order, a later write to a key replacing an earlier one
RECURSIVE ApplySetData(_, _, _, _)
ApplySetData(s, keys, values, i) ==
    IF i > Len(keys)
    THEN s
    ELSE ApplySetData([s EXCEPT ![keys[i]] = values[i]], keys, values, i + 1)

\* ----------------------------------------------------------------- state
VARIABLES
    controllers,          \* controllerAddresses argument of the run
    baseContractAddress,  \* baseContractAddresses.LSP0ERC725Account ("" when none)
    bytecode,             \* bytecode argument of accountDeployment$ ("" when none)
    probeAnswer,          \* what isSignerUniversalProfile$ emits in the run
    accountReceipt,       \* receipt of the last event account$ emits in the run
    keyManagerReceipt,    \* receipt of the event keyManagerDeployment$ emits in the run
    acc,                  \* account stream: idle, run, pending, confirmed, initPending, ok, err
    ur,                   \* universalReceiver$: idle, run, ok, empty, err
    urAddress,            \* delegate address of the universalReceiver$ receipt
    prof,                 \* lsp3ProfileData$: idle, run, ok, err
    profData,             \* value lsp3ProfileData$ emitted
    probe,                \* isSignerUniversalProfile$: idle, run, ok, err
    km,                   \* keyManagerDeployment$: idle, run, ok, err
    send,                 \* pendingSetDataAndTransferOwnershipArray$: idle, join, est, ok, err
    txSetData,            \* setData transaction: none, pending, confirmed, failed
    txTransfer,           \* transferOwnership transaction: none, pending, confirmed, failed
    claim,                \* claimOwnership$ and its receipt: idle, run, pending, confirmed, failed, err
    revoke,               \* revokeSignerPermissions$ and its receipt: same values
    live,                 \* a subscriber of the handoff stream has not yet been sent an error
    hSubs,                \* subscriptions made to the handoff stream
    aSubs,                \* subscriptions made to the account stream from outside the handoff
    accCreateSub,         \* account creation transactions submitted
    accCreated,           \* what each creation transaction submitted deploys
    initSub,              \* initialize transactions submitted
    setDataSub,           \* setData transactions submitted
    transferSub,          \* transferOwnership transactions submitted
    claimSub,             \* claimOwnership transactions submitted
    revokeSub,            \* revoke transactions submitted
    setDataArgs,          \* arguments of the setData transaction submitted
    revokeArgs,           \* key and value of the revoke transaction submitted
    encoded,              \* results of the invocations of prepareSetDataParameters
    calls,                \* gas estimates and sends of the handoff, in call order
    targets,              \* contracts each transaction of the handoff is sent with
    seen,                 \* per stream and subscriber of it: the events delivered
    store,                \* ERC725Y storage of the account
    owner,                \* owner() of the account
    pendingOwner          \* pendingOwner() of the account

config == <<controllers, baseContractAddress, bytecode, probeAnswer, accountReceipt,
           keyManagerReceipt>>
inputs == <<ur, urAddress, prof, profData, probe, km>>
handoff == <<send, txSetData, txTransfer, claim, revoke>>
subscribers == <<hSubs, aSubs>>
submitted == <<accCreateSub, accCreated, initSub, setDataSub, transferSub, claimSub, revokeSub>>
payloads == <<setDataArgs, revokeArgs, encoded, calls, targets>>
chain == <<store, owner, pendingOwner>>
vars == <<config, acc, inputs, handoff, live, subscribers, submitted, payloads, chain, seen>>

NoArgs == [keysToSet |-> <<>>, valuesToSet |-> <<>>, erc725AccountAddress |-> NoAddress]
NoKey == [kind |-> "none", address |-> NoAddress, index |-> 0]
NoWrite == [key |-> NoKey, value |-> NoValue]

\* the answers of the chain in a run whose signer is an externally owned
\* account sending each transaction itself: the last event of account$
\* carries the receipt of the initialize call when a proxy is deployed and of
\* the creation otherwise; the key manager is created by a transaction
DirectAccountReceipt(base) ==
    IF base # NoAddress THEN CallReceipt(AccountAddress) ELSE CreationReceipt(AccountAddress)
DirectKeyManagerReceipt == CreationReceipt(KeyManagerAddress)

\* the streams constructed, nothing subscribed
InitAccount ==
    /\ controllers \in PipelineControllerLists
    /\ baseContractAddress \in {NoAddress, LibAddress}
    /\ bytecode \in BytecodeChoices
    /\ probeAnswer = FALSE
    /\ accountReceipt = DirectAccountReceipt(baseContractAddress)
    /\ keyManagerReceipt = DirectKeyManagerReceipt
    /\ acc = "idle"
    /\ ur = "idle" /\ urAddress = NoAddress
    /\ prof = "idle" /\ profData = NoData
    /\ probe = "idle"
    /\ km = "idle"
    /\ send = "idle" /\ txSetData = "none" /\ txTransfer = "none"
    /\ claim = "idle" /\ revoke = "idle"
    /\ live = FALSE
    /\ hSubs = 0 /\ aSubs = 0
    /\ accCreateSub = 0 /\ accCreated = <<>> /\ initSub = 0 /\ setDataSub = 0
    /\ transferSub = 0 /\ claimSub = 0 /\ revokeSub = 0
    /\ setDataArgs = NoArgs /\ revokeArgs = NoWrite /\ encoded = <<>>
    /\ calls = <<>> /\ targets = <<>>
    /\ seen = [account |-> <<>>, handoff |-> <<>>]
    /\ store = EmptyStore
    /\ owner = NoAddress /\ pendingOwner = NoAddress

\* the whole pipeline is run with the account deployed from the default
\* bytecode or as a proxy
Init == InitAccount /\ bytecode = NoBytecode

\* ------------------------------------------------------------ rxjs operators
\* shareReplay(): the first subscriber subscribes the source; later ones share
\* the run or its replay; a subscriber that comes after an error subscribes
\* the source again
ShareReplaySubscribe(status) == IF status \in {"idle", "err"} THEN "run" ELSE status

\* forkJoin: fails with its first failing source, emits once all have completed
ForkJoinFirst(statuses) ==
    IF \E i \in 1..Len(statuses) : statuses[i] = "err" THEN "err"
    ELSE IF statuses[1] = "ok" THEN "ok" ELSE "run"
ForkJoin(statuses) ==
    IF \E i \in 1..Len(statuses) : statuses[i] = "err" THEN "err"
    ELSE IF \A i \in 1..Len(statuses) : statuses[i] = "ok" THEN "ok"
    ELSE "run"

\* concat(accountDeployment$, accountDeploymentReceipt$,
\*        accountDeploymentInitialize$, accountDeploymentInitializeReceipt$)
\* as its subscribers see it: it completes when its last part has completed
AccountStreamSkipsInitialize(a) ==
    CASE a \in {"ok", "confirmed", "initPending"} -> "ok" [] a = "err" -> "err" [] OTHER -> "run"
AccountStreamStatus(a) ==
    CASE a = "ok" -> "ok" [] a = "err" -> "err" [] OTHER -> "run"

\* universalReceiver$.pipe(defaultIfEmpty({ receipt: null }), shareReplay())
UniversalReceiverErrorSwallowed(u) ==
    CASE u \in {"ok", "empty", "err"} -> "ok" [] OTHER -> "run"
UniversalReceiverAddressStatus(u) ==
    CASE u \in {"ok", "empty"} -> "ok" [] u = "err" -> "err" [] OTHER -> "run"

\* forkJoin of prepareSetDataTransaction$
SetDataParametersStatus(a, u, p, b) ==
    ForkJoin(<<AccountStreamStatus(a), UniversalReceiverAddressStatus(u), p, b>>)

\* forkJoin of prepareTransferOwnershipTransaction$
TransferOwnershipParametersStatus(a, k, b) ==
    ForkJoin(<<AccountStreamStatus(a), k, b>>)

\* forkJoin([setDataParameters$, transferOwnershipParameters$])
PendingArrayJoin(a, u, p, b, k) ==
    ForkJoin(<<SetDataParametersStatus(a, u, p, b), TransferOwnershipParametersStatus(a, k, b)>>)

\* what the join does to the handoff when one of its sources moved: the
\* switchMap of pendingSetDataAndTransferOwnershipArray$ runs on the join's
\* emission, and the join's error ends every subscription of the handoff
JoinStep(a, u, p, b, k) ==
    LET j == PendingArrayJoin(a, u, p, b, k)
    IN /\ send' = IF send = "join"
                  THEN (CASE j = "err" -> "err" [] j = "ok" -> "est" [] OTHER -> "join")
                  ELSE send
       /\ live' = IF send = "join" /\ j = "err" THEN FALSE ELSE live

\* the delegate address prepareSetDataTransaction$ resolves
universalReceiverDelegateAddress ==
    IF ur = "ok" THEN urAddress ELSE DefaultDelegate

\* the account address prepareSetDataTransaction$ resolves
lsp3AccountAddress ==
    IF probeAnswer
    THEN Or(accountReceipt.contractAddress, FirstLogAddress(accountReceipt))
    ELSE Or(accountReceipt.contractAddress, accountReceipt.to)

\* the account address prepareTransferOwnershipTransaction$ resolves
erc725AccountAddressFromTo ==
    Or(accountReceipt.contractAddress, accountReceipt.to)
erc725AccountAddress ==
    IF probeAnswer
    THEN Or(accountReceipt.contractAddress, FirstLogAddress(accountReceipt))
    ELSE Or(accountReceipt.contractAddress, accountReceipt.to)

\* the key manager address prepareTransferOwnershipTransaction$ resolves
keyManagerAddress ==
    IF probeAnswer
    THEN Or(keyManagerReceipt.contractAddress, FirstLogAddress(keyManagerReceipt))
    ELSE Or(keyManagerReceipt.contractAddress, keyManagerReceipt.to)

\* the value setDataParameters$ emits
setDataParameters ==
    prepareSetDataParameters(SignerAddress, lsp3AccountAddress,
                             universalReceiverDelegateAddress, controllers, profData)

\* the value transferOwnershipParameters$ emits
transferOwnershipToSigner ==
    [erc725AccountAddress |-> erc725AccountAddress, keyManagerAddress |-> SignerAddress]
transferOwnershipParameters ==
    [erc725AccountAddress |-> erc725AccountAddress, keyManagerAddress |-> keyManagerAddress]

\* ------------------------------------------------------------ subscriptions
\* the handoff can no longer advance: a submitted transaction was not
\* confirmed, and every later subscriber is sent the same failure
HandoffDead ==
    \/ txSetData = "failed" \/ txTransfer = "failed"
    \/ claim = "failed" \/ revoke = "failed"

\* waitForBatchedPendingTransactions(pendingSetDataAndTransferOwnershipArray$)
\* has completed: both transactions of the batch have their receipt
BatchComplete(sd, to) == sd = "confirmed" /\ to = "confirmed"

\* claimOwnership$ calls claimOwnership on the emission of
\* setDataAndTransferOwnership$.pipe(takeLast(1)): the last receipt of the
\* batch, emitted when the batch wait completes
ClaimOnFirstReceipt(sd, to) == sd = "confirmed" \/ to = "confirmed"
ClaimTrigger(sd, to) == BatchComplete(sd, to)

\* concat subscribes its next part once the part before it has completed,
\* provided a subscriber of the handoff stream is still there
SubscribeNext(node, reached) ==
    IF live /\ reached THEN ShareReplaySubscribe(node) ELSE node

\* revokeSignerPermissions$ calls revokeSignerPermissions on the emission of
\* claimOwnershipReceipt$
RevokeOnClaimSubmitted(c) == c \in {"pending", "confirmed"}
RevokeTrigger(c) == c = "confirmed"

\* ------------------------------------------------------------------ events
\* DeploymentEvent {contractName/functionName, status}; the error and the
\* completion notifications of a stream are kept in the same log
Event(step, status) == [step |-> step, status |-> status]
ErrorEvent(cause) == [step |-> cause, status |-> "ERROR"]
EndOfStream == [step |-> "stream", status |-> "END"]

Terminated(events) ==
    Len(events) > 0 /\ events[Len(events)].status \in {"ERROR", "END"}

\* what the ReplaySubject of accountDeployment$'s shareReplay holds for a
\* subscriber that joins the running or completed execution
AccountReplayNewestFirst(a) ==
    CASE a = "pending" -> <<Event("creation", "PENDING")>>
      [] a = "confirmed" -> <<Event("creation", "COMPLETE"), Event("creation", "PENDING")>>
      [] a = "initPending" ->
            <<Event("initialize", "PENDING"), Event("creation", "COMPLETE"),
              Event("creation", "PENDING")>>
      [] a = "ok" ->
            IF baseContractAddress # NoAddress
            THEN <<EndOfStream, Event("initialize", "COMPLETE"), Event("initialize", "PENDING"),
                   Event("creation", "COMPLETE"), Event("creation", "PENDING")>>
            ELSE <<EndOfStream, Event("creation", "COMPLETE"), Event("creation", "PENDING")>>
      [] OTHER -> <<>>
AccountReplay(a) ==
    CASE a = "pending" -> <<Event("creation", "PENDING")>>
      [] a = "confirmed" -> <<Event("creation", "PENDING"), Event("creation", "COMPLETE")>>
      [] a = "initPending" ->
            <<Event("creation", "PENDING"), Event("creation", "COMPLETE"),
              Event("initialize", "PENDING")>>
      [] a = "ok" ->
            IF baseContractAddress # NoAddress
            THEN <<Event("creation", "PENDING"), Event("creation", "COMPLETE"),
                   Event("initialize", "PENDING"), Event("initialize", "COMPLETE"), EndOfStream>>
            ELSE <<Event("creation", "PENDING"), Event("creation", "COMPLETE"), EndOfStream>>
      [] OTHER -> <<>>

\* the receipts setDataAndTransferOwnership$ emits once the batch is confirmed
BatchEvents ==
    <<Event("setData", "COMPLETE"), Event("transferOwnership", "COMPLETE")>>

\* what the concat of the handoff delivers at once to a subscriber that
\* comes while the handoff is under way or over: each part replays what it
\* holds, a part whose transaction was not confirmed fails again
HandoffReplay ==
    LET batch == IF BatchComplete(txSetData, txTransfer) THEN BatchEvents ELSE <<>>
        batchError == IF txSetData = "failed" \/ txTransfer = "failed"
                      THEN <<ErrorEvent("setDataAndTransferOwnership")>> ELSE <<>>
        claimEvents ==
            CASE claim = "pending" -> <<Event("claimOwnership", "PENDING")>>
              [] claim = "confirmed" ->
                    <<Event("claimOwnership", "PENDING"), Event("claimOwnership", "COMPLETE")>>
              [] claim = "failed" ->
                    <<Event("claimOwnership", "PENDING"), ErrorEvent("claimOwnershipReceipt")>>
              [] OTHER -> <<>>
        revokeEvents ==
            CASE revoke = "pending" -> <<Event("revokeSignerPermissions", "PENDING")>>
              [] revoke = "confirmed" ->
                    <<Event("revokeSignerPermissions", "PENDING"),
                      Event("revokeSignerPermissions", "COMPLETE"), EndOfStream>>
              [] revoke = "failed" ->
                    <<Event("revokeSignerPermissions", "PENDING"),
                      ErrorEvent("revokeSignerPermissionsReceipt")>>
              [] OTHER -> <<>>
    IN batch \o batchError \o claimEvents \o revokeEvents

\* a subscriber that was sent an error or the completion gets nothing more
Deliver(events, more) == IF Terminated(events) THEN events ELSE events \o more

\* the logs after accountEvents went to the subscribers of the account
\* stream and handoffEvents to the subscribers of the handoff stream
SeenAfter(accountEvents, handoffEvents) ==
    [account |-> [k \in DOMAIN seen.account |-> Deliver(seen.account[k], accountEvents)],
     handoff |-> [k \in DOMAIN seen.handoff |-> Deliver(seen.handoff[k], handoffEvents)]]

\* the error the join of the handoff sends its subscribers when the step
\* that just moved made it fail (the error of its first failing source)
JoinErrorEvents(a, u, p, b, k) ==
    IF send = "join" /\ PendingArrayJoin(a, u, p, b, k) = "err"
    THEN <<ErrorEvent("pendingSetDataAndTransferOwnershipArray")>> ELSE <<>>

\* an action's events reach the subscribers
Notify(accountEvents, handoffEvents) == seen' = SeenAfter(accountEvents, handoffEvents)
\* a consumer other than the handoff subscribes accountDeployment$
SubscribeAccount ==
    /\ aSubs + hSubs < MaxSubscribers
    /\ aSubs' = aSubs + 1
    /\ acc' = ShareReplaySubscribe(acc)
    /\ JoinStep(acc', ur, prof, probe, km)
    /\ seen' = [seen EXCEPT !.account = Append(@, AccountReplay(acc))]
    /\ UNCHANGED <<config, inputs, txSetData, txTransfer, claim, revoke, hSubs,
                   submitted, payloads, chain>>

\* a consumer subscribes the stream setDataAndTransferOwnershipTransactions$ returns
SubscribeHandoff ==
    /\ aSubs + hSubs < MaxSubscribers
    /\ hSubs' = hSubs + 1
    /\ IF send \in {"idle", "err"}
       THEN /\ acc' = ShareReplaySubscribe(acc)
            /\ ur' = ShareReplaySubscribe(ur)
            /\ prof' = ShareReplaySubscribe(prof)
            /\ probe' = ShareReplaySubscribe(probe)
            /\ km' = ShareReplaySubscribe(km)
            /\ send' = IF PendingArrayJoin(acc', ur', prof', probe', km') = "ok"
                       THEN "est" ELSE "join"
            /\ live' = TRUE
            /\ seen' = [seen EXCEPT !.handoff = Append(@, <<>>)]
            /\ UNCHANGED <<claim, revoke>>
       ELSE /\ live' = IF HandoffDead THEN live ELSE TRUE
            /\ claim' = IF ~HandoffDead /\ ClaimTrigger(txSetData, txTransfer)
                        THEN ShareReplaySubscribe(claim) ELSE claim
            /\ revoke' = IF ~HandoffDead /\ RevokeTrigger(claim)
                         THEN ShareReplaySubscribe(revoke) ELSE revoke
            /\ seen' = [seen EXCEPT !.handoff = Append(@, HandoffReplay)]
            /\ UNCHANGED <<acc, ur, prof, probe, km, send>>
    /\ UNCHANGED <<config, urAddress, profData, txSetData, txTransfer, aSubs,
                   submitted, payloads, chain>>

\* ------------------------------------------------------------ input streams
UniversalReceiverEmit ==
    /\ ur = "run"
    /\ \E a \in DelegateAddressChoices : urAddress' = a
    /\ ur' = "ok"
    /\ JoinStep(acc, ur', prof, probe, km)
    /\ Notify(<<>>,
              JoinErrorEvents(acc, ur', prof, probe, km))
    /\ UNCHANGED <<config, acc, prof, profData, probe, km, txSetData, txTransfer,
                   claim, revoke, subscribers, submitted, payloads, chain>>

UniversalReceiverEmpty ==
    /\ ur = "run"
    /\ ur' = "empty"
    /\ JoinStep(acc, ur', prof, probe, km)
    /\ Notify(<<>>,
              JoinErrorEvents(acc, ur', prof, probe, km))
    /\ UNCHANGED <<config, acc, urAddress, prof, profData, probe, km, txSetData,
                   txTransfer, claim, revoke, subscribers, submitted, payloads, chain>>

UniversalReceiverFail ==
    /\ ur = "run"
    /\ ur' = "err"
    /\ JoinStep(acc, ur', prof, probe, km)
    /\ Notify(<<>>,
              JoinErrorEvents(acc, ur', prof, probe, km))
    /\ UNCHANGED <<config, acc, urAddress, prof, profData, probe, km, txSetData,
                   txTransfer, claim, revoke, subscribers, submitted, payloads, chain>>

ProfileEmit ==
    /\ prof = "run"
    /\ \E d \in ProfileChoices : profData' = d
    /\ prof' = "ok"
    /\ JoinStep(acc, ur, prof', probe, km)
    /\ Notify(<<>>,
              JoinErrorEvents(acc, ur, prof', probe, km))
    /\ UNCHANGED <<config, acc, ur, urAddress, probe, km, txSetData, txTransfer,
                   claim, revoke, subscribers, submitted, payloads, chain>>

ProfileFail ==
    /\ prof = "run"
    /\ prof' = "err"
    /\ JoinStep(acc, ur, prof', probe, km)
    /\ Notify(<<>>,
              JoinErrorEvents(acc, ur, prof', probe, km))
    /\ UNCHANGED <<config, acc, ur, urAddress, profData, probe, km, txSetData,
                   txTransfer, claim, revoke, subscribers, submitted, payloads, chain>>

\* isSignerUniversalProfile$ emits the answer of addressIsUniversalProfile:
\* what supportsInterface returned, or false when a read threw (the catch)
ProbeEmit ==
    /\ probe = "run"
    /\ probe' = "ok"
    /\ JoinStep(acc, ur, prof, probe', km)
    /\ Notify(<<>>,
              JoinErrorEvents(acc, ur, prof, probe', km))
    /\ UNCHANGED <<config, acc, ur, urAddress, prof, profData, km, txSetData,
                   txTransfer, claim, revoke, subscribers, submitted, payloads, chain>>

\* signer.getAddress(), awaited outside the try of addressIsUniversalProfile,
\* rejects: the deferred promise rejects and the stream errors
ProbeFail ==
    /\ probe = "run"
    /\ probe' = "err"
    /\ JoinStep(acc, ur, prof, probe', km)
    /\ Notify(<<>>,
              JoinErrorEvents(acc, ur, prof, probe', km))
    /\ UNCHANGED <<config, acc, ur, urAddress, prof, profData, km, txSetData,
                   txTransfer, claim, revoke, subscribers, submitted, payloads, chain>>

KeyManagerEmit ==
    /\ km = "run"
    /\ km' = "ok"
    /\ JoinStep(acc, ur, prof, probe, km')
    /\ Notify(<<>>,
              JoinErrorEvents(acc, ur, prof, probe, km'))
    /\ UNCHANGED <<config, acc, ur, urAddress, prof, profData, probe, txSetData,
                   txTransfer, claim, revoke, subscribers, submitted, payloads, chain>>

KeyManagerFail ==
    /\ km = "run"
    /\ km' = "err"
    /\ JoinStep(acc, ur, prof, probe, km')
    /\ Notify(<<>>,
              JoinErrorEvents(acc, ur, prof, probe, km'))
    /\ UNCHANGED <<config, acc, ur, urAddress, prof, profData, probe, txSetData,
                   txTransfer, claim, revoke, subscribers, submitted, payloads, chain>>

\* ----------------------------------------------------------- account stream
\* what the creation transaction of deployLSP3Account deploys: a proxy of the
\* base contract, the bytecode given, or UniversalProfile__factory's own
ProxyCreation(base) == [type |-> "PROXY", code |-> <<"proxy of", base>>]
ContractCreation(code) == [type |-> "CONTRACT", code |-> <<"bytecode", code>>]
DefaultCreation == [type |-> "CONTRACT", code |-> <<"UniversalProfile__factory", NoBytecode>>]

deployLSP3AccountBytecodeFirst(base, code) ==
    IF code # NoBytecode THEN ContractCreation(code)
    ELSE IF base # NoAddress THEN ProxyCreation(base)
    ELSE DefaultCreation
deployLSP3Account(base, code) ==
    IF base # NoAddress THEN ProxyCreation(base)
    ELSE IF code # NoBytecode THEN ContractCreation(code)
    ELSE DefaultCreation

\* deployLSP3Account submits the creation transaction (of the proxy when a
\* base contract address is given, of the full contract otherwise)
AccountDeploySubmit ==
    /\ acc = "run"
    /\ acc' = "pending"
    /\ accCreateSub' = accCreateSub + 1
    /\ accCreated' = Append(accCreated, deployLSP3Account(baseContractAddress, bytecode))
    /\ JoinStep(acc', ur, prof, probe, km)
    /\ Notify(<<Event("creation", "PENDING")>>,
              JoinErrorEvents(acc', ur, prof, probe, km))
    /\ UNCHANGED <<config, inputs, txSetData, txTransfer, claim, revoke, subscribers,
                   initSub, setDataSub, transferSub, claimSub, revokeSub, payloads, chain>>

AccountDeployFail ==
    /\ acc = "run"
    /\ acc' = "err"
    /\ JoinStep(acc', ur, prof, probe, km)
    /\ Notify(<<ErrorEvent("accountDeployment")>>,
              JoinErrorEvents(acc', ur, prof, probe, km))
    /\ UNCHANGED <<config, inputs, txSetData, txTransfer, claim, revoke, subscribers,
                   submitted, payloads, chain>>

\* accountDeploymentReceipt$: the creation transaction is confirmed; with a
\* base contract address the initialize call follows, without one
\* accountDeploymentInitialize$ is EMPTY and the stream completes
AccountReceipt ==
    /\ acc = "pending"
    /\ acc' = IF baseContractAddress # NoAddress THEN "confirmed" ELSE "ok"
    /\ owner' = IF baseContractAddress # NoAddress THEN owner ELSE SignerAddress
    /\ JoinStep(acc', ur, prof, probe, km)
    /\ Notify(IF baseContractAddress # NoAddress
                 THEN <<Event("creation", "COMPLETE")>>
                 ELSE <<Event("creation", "COMPLETE"), EndOfStream>>,
              JoinErrorEvents(acc', ur, prof, probe, km))
    /\ UNCHANGED <<config, inputs, txSetData, txTransfer, claim, revoke, subscribers,
                   submitted, payloads, store, pendingOwner>>

AccountReceiptFail ==
    /\ acc = "pending"
    /\ acc' = "err"
    /\ JoinStep(acc', ur, prof, probe, km)
    /\ Notify(<<ErrorEvent("accountDeploymentReceipt")>>,
              JoinErrorEvents(acc', ur, prof, probe, km))
    /\ UNCHANGED <<config, inputs, txSetData, txTransfer, claim, revoke, subscribers,
                   submitted, payloads, chain>>

\* initializeProxy: initialize(signerAddress) is sent to the confirmed proxy
InitializeSubmit ==
    /\ acc = "confirmed"
    /\ acc' = "initPending"
    /\ initSub' = initSub + 1
    /\ JoinStep(acc', ur, prof, probe, km)
    /\ Notify(<<Event("initialize", "PENDING")>>,
              JoinErrorEvents(acc', ur, prof, probe, km))
    /\ UNCHANGED <<config, inputs, txSetData, txTransfer, claim, revoke, subscribers,
                   accCreateSub, accCreated, setDataSub, transferSub, claimSub, revokeSub, payloads, chain>>

InitializeFail ==
    /\ acc = "confirmed"
    /\ acc' = "err"
    /\ JoinStep(acc', ur, prof, probe, km)
    /\ Notify(<<ErrorEvent("accountDeploymentInitialize")>>,
              JoinErrorEvents(acc', ur, prof, probe, km))
    /\ UNCHANGED <<config, inputs, txSetData, txTransfer, claim, revoke, subscribers,
                   submitted, payloads, chain>>

\* accountDeploymentInitializeReceipt$
InitializeReceipt ==
    /\ acc = "initPending"
    /\ acc' = "ok"
    /\ owner' = SignerAddress
    /\ JoinStep(acc', ur, prof, probe, km)
    /\ Notify(<<Event("initialize", "COMPLETE"), EndOfStream>>,
              JoinErrorEvents(acc', ur, prof, probe, km))
    /\ UNCHANGED <<config, inputs, txSetData, txTransfer, claim, revoke, subscribers,
                   submitted, payloads, store, pendingOwner>>

InitializeReceiptFail ==
    /\ acc = "initPending"
    /\ acc' = "err"
    /\ JoinStep(acc', ur, prof, probe, km)
    /\ Notify(<<ErrorEvent("accountDeploymentInitializeReceipt")>>,
              JoinErrorEvents(acc', ur, prof, probe, km))
    /\ UNCHANGED <<config, inputs, txSetData, txTransfer, claim, revoke, subscribers,
                   submitted, payloads, chain>>

\* ----------------------------------------------------------------- gas
GAS_BUFFER == 100000
GAS_PRICE == "GAS_PRICE"

\* what estimateGas answers for each call of the handoff; the answers differ
\* from call to call
HandoffCalls == <<"setData", "transferOwnership", "claimOwnership", "revokeSignerPermissions">>
GasEstimate(tx) == 21000 + 1000 * IndexOf(HandoffCalls, tx)

\* gasLimit: estimate.add(GAS_BUFFER)
GasLimitWithoutBuffer(estimate) == estimate
GasLimit(estimate) == estimate + GAS_BUFFER

\* the contracts a transaction of the handoff is built with: the account
\* attached to, and the key manager given as argument or attached to
Target(tx, account, keyManager) == [tx |-> tx, account |-> account, keyManager |-> keyManager]

EstimateCall(tx) == [call |-> "estimateGas", tx |-> tx, gasLimit |-> 0, gasPrice |-> ""]
SendCall(tx, estimate) ==
    [call |-> "send", tx |-> tx, gasLimit |-> GasLimit(estimate), gasPrice |-> GAS_PRICE]

\* ----------------------------------------------------------- handoff stream
\* sendSetDataAndTransferOwnershipTransactions: signer.getAddress() or one of
\* the two gas estimates fails, before anything is sent
SendEstimateFail ==
    /\ send = "est"
    /\ send' = "err"
    /\ live' = FALSE
    /\ Notify(<<>>, <<ErrorEvent("setDataAndTransferOwnership")>>)
    /\ UNCHANGED <<config, acc, inputs, txSetData, txTransfer, claim, revoke,
                   subscribers, submitted, payloads, chain>>

\* sendSetDataAndTransferOwnershipTransactions after its last await: setData
\* is sent, then transferOwnership, neither awaited
SendTransferOnly ==
    /\ send = "est"
    /\ send' = "ok"
    /\ txTransfer' = "pending"
    /\ transferSub' = transferSub + 1
    /\ UNCHANGED <<config, acc, inputs, txSetData, claim, revoke, live, subscribers,
                   accCreateSub, accCreated, initSub, setDataSub, claimSub, revokeSub, payloads, chain, seen>>
SendSubmit ==
    /\ send = "est"
    /\ send' = "ok"
    /\ setDataArgs' = setDataParameters
    /\ txSetData' = "pending"
    /\ setDataSub' = setDataSub + 1
    /\ txTransfer' = "pending"
    /\ transferSub' = transferSub + 1
    /\ calls' = calls \o <<EstimateCall("setData"), EstimateCall("transferOwnership"),
                         SendCall("setData", GasEstimate("setData")),
                         SendCall("transferOwnership", GasEstimate("transferOwnership"))>>
    /\ targets' = targets \o
            <<Target("setData", setDataParameters.erc725AccountAddress, NoAddress),
              Target("transferOwnership", setDataParameters.erc725AccountAddress,
                     transferOwnershipParameters.keyManagerAddress)>>
    /\ UNCHANGED <<config, acc, inputs, claim, revoke, live, subscribers,
                   accCreateSub, accCreated, initSub, claimSub, revokeSub, revokeArgs, encoded, chain, seen>>

\* the setData transaction is mined: its pairs are written to the account
ConfirmSetData ==
    /\ txSetData = "pending"
    /\ txSetData' = "confirmed"
    /\ store' = ApplySetData(store, setDataArgs.keysToSet, setDataArgs.valuesToSet, 1)
    /\ claim' = SubscribeNext(claim, ClaimTrigger(txSetData', txTransfer))
    /\ Notify(<<>>, IF BatchComplete(txSetData', txTransfer) THEN BatchEvents ELSE <<>>)
    /\ UNCHANGED <<config, acc, inputs, send, txTransfer, revoke, live, subscribers,
                   submitted, payloads, owner, pendingOwner>>

FailSetData ==
    /\ txSetData = "pending"
    /\ txSetData' = "failed"
    /\ live' = FALSE
    /\ Notify(<<>>, <<ErrorEvent("setDataAndTransferOwnership")>>)
    /\ UNCHANGED <<config, acc, inputs, send, txTransfer, claim, revoke, subscribers,
                   submitted, payloads, chain>>

\* the transferOwnership transaction is mined: the key manager is pending owner
ConfirmTransfer ==
    /\ txTransfer = "pending"
    /\ txTransfer' = "confirmed"
    /\ pendingOwner' = transferOwnershipParameters.keyManagerAddress
    /\ claim' = SubscribeNext(claim, ClaimTrigger(txSetData, txTransfer'))
    /\ Notify(<<>>, IF BatchComplete(txSetData, txTransfer') THEN BatchEvents ELSE <<>>)
    /\ UNCHANGED <<config, acc, inputs, send, txSetData, revoke, live, subscribers,
                   submitted, payloads, store, owner>>

FailTransfer ==
    /\ txTransfer = "pending"
    /\ txTransfer' = "failed"
    /\ live' = FALSE
    /\ Notify(<<>>, <<ErrorEvent("setDataAndTransferOwnership")>>)
    /\ UNCHANGED <<config, acc, inputs, send, txSetData, claim, revoke, subscribers,
                   submitted, payloads, chain>>

\* keyManager.execute(payload) from the signer: the key manager lets the
\* call through only if the account's storage gives the signer the right
\* the payload needs; otherwise the call reverts, and so does its estimate
KeyManagerAllows(right) ==
    /\ store[PermissionsKey(SignerAddress)].kind = "permissions"
    /\ right \in store[PermissionsKey(SignerAddress)].rights

\* claimOwnership: keyManager.execute(claimOwnership payload) is sent
ClaimSubmit ==
    /\ claim = "run"
    /\ KeyManagerAllows("CHANGEOWNER")
    /\ claim' = "pending"
    /\ claimSub' = claimSub + 1
    /\ revoke' = SubscribeNext(revoke, RevokeTrigger(claim'))
    /\ calls' = calls \o <<EstimateCall("claimOwnership"),
                         SendCall("claimOwnership", GasEstimate("claimOwnership"))>>
    /\ targets' = Append(targets,
            Target("claimOwnership", transferOwnershipParameters.erc725AccountAddress,
                   transferOwnershipParameters.keyManagerAddress))
    /\ Notify(<<>>, <<Event("claimOwnership", "PENDING")>>)
    /\ UNCHANGED <<config, acc, inputs, send, txSetData, txTransfer, live,
                   subscribers, accCreateSub, accCreated, initSub, setDataSub, transferSub,
                   revokeSub, setDataArgs, revokeArgs, encoded, chain>>

\* claimOwnership: the estimate or the send is rejected
ClaimSubmitFail ==
    /\ claim = "run"
    /\ claim' = "err"
    /\ live' = FALSE
    /\ Notify(<<>>, <<ErrorEvent("claimOwnership")>>)
    /\ UNCHANGED <<config, acc, inputs, send, txSetData, txTransfer, revoke,
                   subscribers, submitted, payloads, chain>>

\* claimOwnership: the estimate reverts, the key manager refusing the signer
ClaimRejected ==
    /\ ~KeyManagerAllows("CHANGEOWNER")
    /\ ClaimSubmitFail

\* claimOwnershipReceipt$ emits: the pending owner has become the owner, and
\* the switchMap of revokeSignerPermissions$ calls revokeSignerPermissions
ClaimReceipt ==
    /\ claim = "pending"
    /\ claim' = "confirmed"
    /\ owner' = pendingOwner
    /\ revoke' = SubscribeNext(revoke, RevokeTrigger(claim'))
    /\ Notify(<<>>, <<Event("claimOwnership", "COMPLETE")>>)
    /\ UNCHANGED <<config, acc, inputs, send, txSetData, txTransfer, live, subscribers,
                   submitted, payloads, store, pendingOwner>>

ClaimReceiptFail ==
    /\ claim = "pending"
    /\ claim' = "failed"
    /\ live' = FALSE
    /\ Notify(<<>>, <<ErrorEvent("claimOwnershipReceipt")>>)
    /\ UNCHANGED <<config, acc, inputs, send, txSetData, txTransfer, revoke,
                   subscribers, submitted, payloads, chain>>

\* revokeSignerPermissions: keyManager.execute(setData(signer key, permission))
RevokeSubmit ==
    /\ revoke = "run"
    /\ KeyManagerAllows("CHANGEPERMISSIONS")
    /\ revoke' = "pending"
    /\ revokeSub' = revokeSub + 1
    /\ revokeArgs' = [key |-> PermissionsKey(SignerAddress),
                      value |-> PermissionsValue(signerPermission(SignerAddress, controllers))]
    /\ calls' = calls \o <<EstimateCall("revokeSignerPermissions"),
                         SendCall("revokeSignerPermissions", GasEstimate("revokeSignerPermissions"))>>
    /\ targets' = Append(targets,
            Target("revokeSignerPermissions", setDataParameters.erc725AccountAddress,
                   transferOwnershipParameters.keyManagerAddress))
    /\ Notify(<<>>, <<Event("revokeSignerPermissions", "PENDING")>>)
    /\ UNCHANGED <<config, acc, inputs, send, txSetData, txTransfer, claim, live,
                   subscribers, accCreateSub, accCreated, initSub, setDataSub, transferSub,
                   claimSub, setDataArgs, encoded, chain>>

RevokeSubmitFail ==
    /\ revoke = "run"
    /\ revoke' = "err"
    /\ live' = FALSE
    /\ Notify(<<>>, <<ErrorEvent("revokeSignerPermissions")>>)
    /\ UNCHANGED <<config, acc, inputs, send, txSetData, txTransfer, claim,
                   subscribers, submitted, payloads, chain>>

\* revokeSignerPermissionsReceipt$ emits: the signer's entry is overwritten
RevokeReceipt ==
    /\ revoke = "pending"
    /\ revoke' = "confirmed"
    /\ store' = [store EXCEPT ![revokeArgs.key] = revokeArgs.value]
    /\ Notify(<<>>, <<Event("revokeSignerPermissions", "COMPLETE"), EndOfStream>>)
    /\ UNCHANGED <<config, acc, inputs, send, txSetData, txTransfer, claim, live,
                   subscribers, submitted, payloads, owner, pendingOwner>>

RevokeReceiptFail ==
    /\ revoke = "pending"
    /\ revoke' = "failed"
    /\ live' = FALSE
    /\ Notify(<<>>, <<ErrorEvent("revokeSignerPermissionsReceipt")>>)
    /\ UNCHANGED <<config, acc, inputs, send, txSetData, txTransfer, claim,
                   subscribers, submitted, payloads, chain>>

Next ==
    \/ SubscribeAccount
    \/ SubscribeHandoff
    \/ UniversalReceiverEmit
    \/ UniversalReceiverEmpty
    \/ UniversalReceiverFail
    \/ ProfileEmit
    \/ ProfileFail
    \/ ProbeEmit
    \/ ProbeFail
    \/ KeyManagerEmit
    \/ KeyManagerFail
    \/ AccountDeploySubmit
    \/ AccountDeployFail
    \/ AccountReceipt
    \/ AccountReceiptFail
    \/ InitializeSubmit
    \/ InitializeFail
    \/ InitializeReceipt
    \/ InitializeReceiptFail
    \/ SendEstimateFail
    \/ SendSubmit
    \/ ConfirmSetData
    \/ FailSetData
    \/ ConfirmTransfer
    \/ FailTransfer
    \/ ClaimSubmit
    \/ ClaimSubmitFail
    \/ ClaimReceipt
    \/ ClaimReceiptFail
    \/ RevokeSubmit
    \/ RevokeSubmitFail
    \/ RevokeReceipt
    \/ RevokeReceiptFail

Spec == Init /\ [][Next]_vars

\* ------------------------------------------------ the pipeline, nothing failing
\* The runs in which every input stream emits, every transaction submitted
\* is confirmed and no call fails in transport: what is left to fail is a
\* call the chain itself refuses. The steps other than the subscriptions are
\* completions of asynchronous work the event loop runs as soon as they are
\* due, so a step that stays due is eventually taken.
Progress ==
    \/ UniversalReceiverEmit
    \/ UniversalReceiverEmpty
    \/ ProfileEmit
    \/ ProbeEmit
    \/ KeyManagerEmit
    \/ AccountDeploySubmit
    \/ AccountReceipt
    \/ InitializeSubmit
    \/ InitializeReceipt
    \/ SendSubmit
    \/ ConfirmSetData
    \/ ConfirmTransfer
    \/ ClaimSubmit
    \/ ClaimRejected
    \/ ClaimReceipt
    \/ RevokeSubmit
    \/ RevokeReceipt

NextLive ==
    \/ SubscribeAccount
    \/ SubscribeHandoff
    \/ Progress

SpecLive == Init /\ [][NextLive]_vars /\ WF_vars(Progress)

\* ------------------------------------------------- the account stream alone
\* accountDeployment$ subscribed by consumers of its own, for every base
\* contract address and bytecode argument
NextAccount ==
    \/ SubscribeAccount
    \/ AccountDeploySubmit
    \/ AccountDeployFail
    \/ AccountReceipt
    \/ AccountReceiptFail
    \/ InitializeSubmit
    \/ InitializeFail
    \/ InitializeReceipt
    \/ InitializeReceiptFail

SpecAccount == InitAccount /\ [][NextAccount]_vars

\* ------------------------------------------------------- the handoff alone
\* The pipeline at the moment the join of the parameter streams has emitted
\* to the first subscriber of the handoff stream: every source has completed,
\* sendSetDataAndTransferOwnershipTransactions has been called. From there
\* on the run depends on the controller list, the delegate address and the
\* profile data, which are drawn from their whole bounded sets.
InitJoined ==
    /\ controllers \in ControllerLists
    /\ baseContractAddress \in {NoAddress, LibAddress}
    /\ bytecode = NoBytecode
    /\ probeAnswer = FALSE
    /\ accountReceipt = DirectAccountReceipt(baseContractAddress)
    /\ keyManagerReceipt = DirectKeyManagerReceipt
    /\ acc = "ok"
    /\ \/ ur = "ok" /\ urAddress \in DelegateAddressChoices
       \/ ur = "empty" /\ urAddress = NoAddress
    /\ prof = "ok" /\ profData \in ProfileChoices
    /\ probe = "ok"
    /\ km = "ok"
    /\ send = "est" /\ txSetData = "none" /\ txTransfer = "none"
    /\ claim = "idle" /\ revoke = "idle"
    /\ live = TRUE
    /\ hSubs = 1 /\ aSubs = 0
    /\ accCreateSub = 1
    /\ accCreated = <<deployLSP3Account(baseContractAddress, bytecode)>>
    /\ initSub = IF baseContractAddress # NoAddress THEN 1 ELSE 0
    /\ setDataSub = 0 /\ transferSub = 0 /\ claimSub = 0 /\ revokeSub = 0
    /\ setDataArgs = NoArgs /\ revokeArgs = NoWrite /\ encoded = <<>>
    /\ calls = <<>> /\ targets = <<>>
    /\ seen = [account |-> <<>>, handoff |-> << <<>> >>]
    /\ store = EmptyStore
    /\ owner = SignerAddress /\ pendingOwner = NoAddress

NextJoined ==
    \/ SubscribeHandoff
    \/ SendEstimateFail
    \/ SendSubmit
    \/ ConfirmSetData
    \/ FailSetData
    \/ ConfirmTransfer
    \/ FailTransfer
    \/ ClaimSubmit
    \/ ClaimSubmitFail
    \/ ClaimReceipt
    \/ ClaimReceiptFail
    \/ RevokeSubmit
    \/ RevokeSubmitFail
    \/ RevokeReceipt
    \/ RevokeReceiptFail

SpecJoined == InitJoined /\ [][NextJoined]_vars

\* ------------------------------------------- the handoff, addresses resolved
\* The handoff from the emission of the join on, as InitJoined, for both
\* answers of the signer probe and every shape of the account's and the key
\* manager's receipt. The join has emitted, so neither switchMap threw on
\* reading logs[0].address: the pairs of answer and receipt for which it
\* throws end in the join's error instead.
InitResolved ==
    /\ controllers \in PipelineControllerLists
    /\ baseContractAddress \in {NoAddress, LibAddress}
    /\ bytecode = NoBytecode
    /\ probeAnswer \in BOOLEAN
    /\ accountReceipt \in ReceiptShapes(AccountAddress)
    /\ keyManagerReceipt \in ReceiptShapes(KeyManagerAddress)
    /\ lsp3AccountAddress # Thrown
    /\ erc725AccountAddress # Thrown
    /\ keyManagerAddress # Thrown
    /\ acc = "ok"
    /\ \/ ur = "ok" /\ urAddress \in DelegateAddressChoices
       \/ ur = "empty" /\ urAddress = NoAddress
    /\ prof = "ok" /\ profData \in ProfileChoices
    /\ probe = "ok"
    /\ km = "ok"
    /\ send = "est" /\ txSetData = "none" /\ txTransfer = "none"
    /\ claim = "idle" /\ revoke = "idle"
    /\ live = TRUE
    /\ hSubs = 1 /\ aSubs = 0
    /\ accCreateSub = 1
    /\ accCreated = <<deployLSP3Account(baseContractAddress, bytecode)>>
    /\ initSub = IF baseContractAddress # NoAddress THEN 1 ELSE 0
    /\ setDataSub = 0 /\ transferSub = 0 /\ claimSub = 0 /\ revokeSub = 0
    /\ setDataArgs = NoArgs /\ revokeArgs = NoWrite /\ encoded = <<>>
    /\ calls = <<>> /\ targets = <<>>
    /\ seen = [account |-> <<>>, handoff |-> << <<>> >>]
    /\ store = EmptyStore
    /\ owner = SignerAddress /\ pendingOwner = NoAddress

SpecResolved == InitResolved /\ [][NextJoined]_vars

\* ------------------------------------------------------- the encoder alone
\* prepareSetDataParameters invoked again on the inputs of the run: the
\* switchMap of prepareSetDataTransaction$ calls it with the signer, the
\* resolved addresses, the controller list and the profile data
EncodeOnReversedList ==
    /\ Len(encoded) < MaxInvocations
    /\ encoded' = Append(encoded,
            IF Len(encoded) = 0
            THEN setDataParameters
            ELSE prepareSetDataParameters(SignerAddress, lsp3AccountAddress,
                     universalReceiverDelegateAddress,
                     [i \in 1..Len(controllers) |-> controllers[Len(controllers) + 1 - i]],
                     profData))
    /\ UNCHANGED <<config, acc, inputs, handoff, live, subscribers, submitted,
                   setDataArgs, revokeArgs, calls, targets, chain, seen>>
Encode ==
    /\ Len(encoded) < MaxInvocations
    /\ encoded' = Append(encoded, setDataParameters)
    /\ UNCHANGED <<config, acc, inputs, handoff, live, subscribers, submitted,
                   setDataArgs, revokeArgs, calls, targets, chain, seen>>

NextEncoder == Encode

SpecEncoder == InitJoined /\ [][NextEncoder]_vars

\* ============================================================== properties
\* a step the setData write joins on is in its failed state
JoinFailed ==
    \/ acc = "err" \/ ur = "err" \/ prof = "err" \/ probe = "err" \/ km = "err"

NothingSubmittedByHandoff ==
    /\ setDataSub = 0 /\ transferSub = 0 /\ claimSub = 0 /\ revokeSub = 0
    /\ txSetData = "none" /\ txTransfer = "none"

C2_TransferOnlyAfterSetDataConfirmed ==
    txTransfer # "none" => txSetData = "confirmed"

\* C2 amended: transferOwnership is submitted only after the join of the
\* parameter streams has emitted and after the setData transaction of the
\* same batch has been submitted; it does not wait for setData's receipt.
C2_TransferOnlyAfterSetDataSubmitted ==
    (txTransfer # "none" \/ transferSub > 0) =>
        /\ txSetData # "none"
        /\ setDataSub > 0
        /\ setDataArgs = setDataParameters
        /\ PendingArrayJoin(acc, ur, prof, probe, km) = "ok"

C2_Witness ==
    txTransfer = "pending" /\ txSetData = "pending" /\ transferSub = 1

C4_EachStepSubmittedAtMostOnce ==
    /\ accCreateSub <= 1 /\ initSub <= 1
    /\ setDataSub <= 1 /\ transferSub <= 1
    /\ claimSub <= 1 /\ revokeSub <= 1

\* ------------------------------------------------------------ encoder claims
NumControllers == Len(controllers)
SignerIsController == \E i \in 1..NumControllers : controllers[i].address = SignerAddress
RequestedPermissions(i) ==
    IF controllers[i].kind = "string" THEN DEFAULT_PERMISSIONS ELSE controllers[i].permissions
FirstSignerEntry ==
    CHOOSE i \in 1..NumControllers :
        /\ controllers[i].address = SignerAddress
        /\ \A j \in 1..(i - 1) : controllers[j].address # SignerAddress
ProfilePairs == IF profData # NoData THEN 1 ELSE 0
KeysOfKind(keys, kind) == {i \in 1..Len(keys) : keys[i].kind = kind}
SignerKeyPositions(keys) == {i \in 1..Len(keys) : keys[i] = PermissionsKey(SignerAddress)}
FirstSignerKey(keys) ==
    CHOOSE i \in SignerKeyPositions(keys) : \A j \in SignerKeyPositions(keys) : i <= j

C6_RevokeWritesIntendedPermissions ==
    revokeSub > 0 =>
        /\ revokeArgs.key = PermissionsKey(SignerAddress)
        /\ revokeArgs.value.kind = "permissions"
        /\ \A i \in 1..NumControllers :
              (/\ controllers[i].address = SignerAddress
               /\ \A j \in 1..(i - 1) : controllers[j].address # SignerAddress)
              => /\ controllers[i].kind = "object" =>
                        revokeArgs.value.rights = controllers[i].permissions
                 /\ controllers[i].kind = "string" =>
                        revokeArgs.value.rights = {"SETDATA", "CALL"}
        /\ ~SignerIsController => revokeArgs.value.rights = {}

C6_Witness ==
    /\ revokeSub > 0 /\ SignerIsController
    /\ controllers[FirstSignerEntry].kind = "object"
    /\ controllers[FirstSignerEntry].permissions = {"CALL"}
    /\ revokeArgs.value.rights = {"CALL"}

\* C7: once the revoke is confirmed (DONE) the account's owner is the key
\* manager, every controller other than the signer holds the bitmask of its
\* (last) entry in the list, the signer holds the bitmask the revocation
\* wrote back (requested, default or empty), and the profile key holds the
\* encoded metadata when metadata was supplied.
IntendedSignerPermissions ==
    IF SignerIsController THEN RequestedPermissions(FirstSignerEntry) ELSE {}
Done == revoke = "confirmed"
C7_FinalAccountState ==
    Done =>
        /\ owner = KeyManagerAddress
        /\ \A i \in 1..NumControllers :
              (/\ controllers[i].address # SignerAddress
               /\ \A j \in (i + 1)..NumControllers :
                     controllers[j].address # controllers[i].address)
              => store[PermissionsKey(controllers[i].address)]
                    = PermissionsValue(RequestedPermissions(i))
        /\ store[PermissionsKey(SignerAddress)] = PermissionsValue(IntendedSignerPermissions)
        /\ profData # NoData => store[LSP3_PROFILE] = BytesValue(profData)

\* DONE with a default controller ahead of the signer given custom rights, and a profile
C7_Witness ==
    /\ Done
    /\ NumControllers = 2
    /\ controllers[1] = StringController(OtherController)
    /\ controllers[2] = ObjectController(SignerAddress, {"CALL"})
    /\ profData # NoData
    /\ store[LSP3_PROFILE] = BytesValue(profData)

\* C8: the setData transaction is submitted only once the account stream,
\* the delegate stream (completed with a receipt, or completed empty) and the
\* metadata stream have all completed.
C8_SetDataAfterAllJoined ==
    /\ [](setDataSub > 0 => acc = "ok" /\ ur \in {"ok", "empty"} /\ prof = "ok")
    /\ [][setDataSub' > setDataSub =>
            acc = "ok" /\ ur \in {"ok", "empty"} /\ prof = "ok"]_vars

\* setData sent after a requested delegate deployment and a metadata upload
C8_Witness ==
    setDataSub = 1 /\ ur = "ok" /\ prof = "ok" /\ profData # NoData /\ acc = "ok"

\* C9: with a base contract address, initialize is submitted only from a
\* state where the proxy's creation is confirmed, and setData is submitted
\* only once that initialize call is confirmed.
C9_InitializeBetweenCreationAndSetData ==
    /\ [][(baseContractAddress # NoAddress /\ initSub' > initSub) =>
            (acc = "confirmed" /\ accCreateSub > 0)]_vars
    /\ [][(baseContractAddress # NoAddress /\ setDataSub' > setDataSub) =>
            (acc = "ok" /\ initSub > 0)]_vars
    /\ [](baseContractAddress # NoAddress /\ setDataSub > 0 => acc = "ok" /\ initSub > 0)
    /\ [](baseContractAddress = NoAddress => initSub = 0)

C9_Witness ==
    baseContractAddress # NoAddress /\ initSub = 1 /\ acc = "ok" /\ setDataSub = 1

\* C10 as stated: for a list of N controllers without the signer the
\* encoder produces N+2 pairs beyond the fixed keys (the delegate key and the
\* array-length key; the profile pair is not counted), and the array length
\* is N+1.
PairsBeyondFixedKeys ==
    Len(setDataArgs.keysToSet) - 2 - ProfilePairs
C10_PairCountNPlus2 ==
    (setDataSub > 0 /\ ~SignerIsController) =>
        /\ PairsBeyondFixedKeys = NumControllers + 2
        /\ setDataArgs.valuesToSet[3] = UintValue(NumControllers + 1)

\* C10 amended: the encoder produces 2N+3 pairs beyond the two fixed keys:
\* N address-index entries plus 1 delegate-index entry, N mapping entries
\* plus 1 delegate mapping entry, plus one synthetic signer entry; the value
\* under the array-length key is N+1.
C10_PairCount2NPlus3 ==
    (setDataSub > 0 /\ ~SignerIsController) =>
        LET keys == setDataArgs.keysToSet
            values == setDataArgs.valuesToSet
            n == NumControllers
        IN /\ PairsBeyondFixedKeys = 2 * n + 3
           /\ Len(values) = Len(keys)
           /\ Cardinality(KeysOfKind(keys, "ELEMENT")) = n + 1
           /\ Cardinality(KeysOfKind(keys, "PERMISSIONS")) = n + 2
           /\ keys[1] = UNIVERSAL_RECEIVER_DELEGATE_KEY
           /\ keys[3] = ADDRESS_PERMISSIONS_ARRAY_KEY
           /\ values[3] = UintValue(n + 1)
           /\ keys[2 * n + 5] = PermissionsKey(SignerAddress)
           /\ values[2 * n + 5] = PermissionsValue({"CHANGEOWNER", "CHANGEPERMISSIONS"})

C10_Witness ==
    setDataSub > 0 /\ ~SignerIsController /\ NumControllers = 2

\* ------------------------------------------------- write-set alignment
\* the pairs every write set starts and ends with, whatever the signer
WriteSetFrame ==
    LET keys == setDataArgs.keysToSet
        values == setDataArgs.valuesToSet
        n == NumControllers
    IN /\ Len(keys) = Len(values)
       /\ keys[1] = UNIVERSAL_RECEIVER_DELEGATE_KEY
       /\ values[1] = AddressValue(universalReceiverDelegateAddress)
       /\ keys[3] = ADDRESS_PERMISSIONS_ARRAY_KEY
       /\ values[3] = UintValue(n + 1)
       /\ \A i \in 1..n :
             /\ keys[3 + i] = ArrayElementKey(i - 1)
             /\ values[3 + i] = AddressValue(controllers[i].address)
             /\ keys[3 + n + i] = PermissionsKey(controllers[i].address)
       /\ profData # NoData =>
             /\ keys[Len(keys)] = LSP3_PROFILE
             /\ values[Len(keys)] = BytesValue(profData)
       /\ profData = NoData => KeysOfKind(keys, "PROFILE") = {}

\* C11 as stated: keysToSet and valuesToSet have the same length and, for
\* every input, the mapping key of controller i is paired with permission i
\* (next to address-index key i with address i and the profile key with the
\* profile bytes).
C11_EveryMappingKeyHoldsItsPermission ==
    setDataSub > 0 =>
        /\ WriteSetFrame
        /\ \A i \in 1..NumControllers :
              setDataArgs.valuesToSet[3 + NumControllers + i]
                  = PermissionsValue(RequestedPermissions(i))

\* C11 amended: the lengths are equal and every value sits at the index of
\* its key, except that, with the signer in the list, the first index whose
\* key is the signer's mapping key holds the change-owner +
\* change-permissions bitmask in place of the value first put there.
C11_ValuesAlignedButSignerIndex ==
    setDataSub > 0 =>
        LET keys == setDataArgs.keysToSet
            values == setDataArgs.valuesToSet
            n == NumControllers
            Overwritten(k) == SignerIsController /\ k = FirstSignerKey(keys)
        IN /\ WriteSetFrame
           /\ keys[2] = PermissionsKey(universalReceiverDelegateAddress)
           /\ values[2] = IF Overwritten(2)
                          THEN PermissionsValue({"CHANGEOWNER", "CHANGEPERMISSIONS"})
                          ELSE PermissionsValue({"SUPER_SETDATA"})
           /\ \A i \in 1..n :
                 values[3 + n + i] =
                     IF Overwritten(3 + n + i)
                     THEN PermissionsValue({"CHANGEOWNER", "CHANGEPERMISSIONS"})
                     ELSE PermissionsValue(RequestedPermissions(i))
           /\ keys[2 * n + 4] = ArrayElementKey(n)
           /\ values[2 * n + 4] = AddressValue(universalReceiverDelegateAddress)

\* two controllers with different rights, the signer the second, and a profile
C11_Witness ==
    /\ setDataSub > 0
    /\ NumControllers = 2
    /\ controllers[1] = StringController(OtherController)
    /\ controllers[2] = ObjectController(SignerAddress, {"CALL"})
    /\ profData # NoData
    /\ Len(setDataArgs.keysToSet) = 9

\* C12: array-index assignment is positional: for every i in 0..N-1 the
\* array-index key with index i occurs once in keysToSet and is paired with
\* the address of the i-th controller of the list, the key with index N occurs
\* once and is paired with the delegate's address, and different positions
\* of the list get different array-index keys.
C12_ArrayIndexPositional ==
    setDataSub > 0 =>
        LET keys == setDataArgs.keysToSet
            values == setDataArgs.valuesToSet
            n == NumControllers
            PositionsOf(key) == {k \in 1..Len(keys) : keys[k] = key}
        IN /\ \A i \in 0..(n - 1) :
                 /\ Cardinality(PositionsOf(ArrayElementKey(i))) = 1
                 /\ \A k \in PositionsOf(ArrayElementKey(i)) :
                       values[k] = AddressValue(controllers[i + 1].address)
           /\ Cardinality(PositionsOf(ArrayElementKey(n))) = 1
           /\ \A k \in PositionsOf(ArrayElementKey(n)) :
                 values[k] = AddressValue(universalReceiverDelegateAddress)
           /\ \A i, j \in 0..n : i # j => ArrayElementKey(i) # ArrayElementKey(j)
           /\ Cardinality(KeysOfKind(keys, "ELEMENT")) = n + 1

\* two different controllers, the signer first
C12_Witness ==
    /\ setDataSub > 0
    /\ NumControllers = 2
    /\ controllers[1].address = SignerAddress
    /\ controllers[2].address = OtherController
    /\ setDataArgs.valuesToSet[4] = AddressValue(SignerAddress)
    /\ setDataArgs.valuesToSet[5] = AddressValue(OtherController)

C20_SignerHoldsHandoffRights ==
    (txSetData = "confirmed" /\ revoke # "confirmed") =>
        /\ store[PermissionsKey(SignerAddress)].kind = "permissions"
        /\ {"CHANGEOWNER", "CHANGEPERMISSIONS"}
              \subseteq store[PermissionsKey(SignerAddress)].rights

\* C19: claimOwnership is submitted only after both the setData and the
\* transferOwnership transaction have been confirmed: claimOwnership is
\* started or submitted only in states where both are confirmed, the step
\* that submits it starts from such a state, and while either of the two
\* stands failed claimOwnership has not been started or submitted.
C19_ClaimOnlyAfterBatchConfirmed ==
    /\ []((claimSub > 0 \/ claim # "idle") =>
              (txSetData = "confirmed" /\ txTransfer = "confirmed"))
    /\ [][claimSub' > claimSub =>
              (txSetData = "confirmed" /\ txTransfer = "confirmed")]_vars
    /\ []((txSetData = "failed" \/ txTransfer = "failed") =>
              (claimSub = 0 /\ claim = "idle" /\ revokeSub = 0))
    /\ [][(txSetData = "failed" \/ txTransfer = "failed") =>
              (txSetData' = "failed" \/ txTransfer' = "failed")]_vars

\* the claim submitted, with both receipts of the batch in
C19_Witness ==
    claimSub = 1 /\ claim = "pending" /\ txSetData = "confirmed" /\ txTransfer = "confirmed"

\* C16: the existing-identity probe never propagates an error: the stream
\* isSignerUniversalProfile$ never ends in an error, so the join of the
\* handoff never fails on account of the probe.
C16_ProbeNeverPropagatesError ==
    /\ probe # "err"
    /\ (send = "err" /\ PendingArrayJoin(acc, ur, prof, probe, km) = "err") =>
           (acc = "err" \/ ur = "err" \/ prof = "err" \/ km = "err")

\* ------------------------------------------------------------- gas claims
SendPositions == {k \in 1..Len(calls) : calls[k].call = "send"}
\* the position of the estimate a send was built from: the last estimate of
\* the same call before it (0 when there is none)
EstimatePosition(k) ==
    LET before == {e \in 1..(k - 1) :
                      calls[e].call = "estimateGas" /\ calls[e].tx = calls[k].tx}
    IN IF before = {} THEN 0 ELSE CHOOSE e \in before : \A f \in before : f <= e
\* every send carries its own estimate plus the buffer, and the fixed price
OwnEstimatePlusBuffer ==
    \A k \in SendPositions :
        /\ EstimatePosition(k) > 0
        /\ calls[k].gasLimit = GasEstimate(calls[k].tx) + GAS_BUFFER
        /\ calls[k].gasPrice = GAS_PRICE
        /\ \A j \in SendPositions : j # k => calls[j].tx # calls[k].tx

\* C17 as stated: every handoff transaction is sent with gas limit = its own
\* estimate + the buffer and with the fixed gas price, and no other
\* transaction is sent between a transaction's estimate and its own send.
C17_NoSendBetweenEstimateAndSend ==
    /\ OwnEstimatePlusBuffer
    /\ \A k \in SendPositions :
          \A m \in (EstimatePosition(k) + 1)..(k - 1) : calls[m].call # "send"

\* C17 amended: every handoff transaction is sent with gas limit = its own
\* estimate + the buffer and with the fixed gas price; claimOwnership and the
\* revoke are estimated immediately before their own send; setData and
\* transferOwnership are both estimated before either is sent, so that the
\* send of setData lies between the estimate and the send of
\* transferOwnership, and nothing but calls of the batch lies in between.
C17_EstimateBeforeSendWithinBatch ==
    /\ OwnEstimatePlusBuffer
    /\ \A k \in SendPositions :
          /\ calls[k].tx \in {"claimOwnership", "revokeSignerPermissions"} =>
                EstimatePosition(k) = k - 1
          /\ calls[k].tx \in {"setData", "transferOwnership"} =>
                \A m \in (EstimatePosition(k) + 1)..(k - 1) :
                    calls[m].tx \in {"setData", "transferOwnership"}
    /\ Len(calls) >= 4 =>
          /\ calls[1] = EstimateCall("setData")
          /\ calls[2] = EstimateCall("transferOwnership")
          /\ calls[3].call = "send" /\ calls[3].tx = "setData"
          /\ calls[4].call = "send" /\ calls[4].tx = "transferOwnership"
    /\ Len(calls) = 2 * (setDataSub + transferSub + claimSub + revokeSub)

\* all four transactions of the handoff have been sent
C17_Witness ==
    /\ Len(calls) = 8
    /\ calls[8].call = "send" /\ calls[8].tx = "revokeSignerPermissions"
    /\ revokeSub = 1

\* ----------------------------------------------------------- event claims
IsPrefix(a, b) == Len(a) <= Len(b) /\ \A k \in 1..Len(a) : a[k] = b[k]
\* a log without the error notification it may end with
BeforeError(events) ==
    IF Len(events) > 0 /\ events[Len(events)].status = "ERROR"
    THEN SubSeq(events, 1, Len(events) - 1) ELSE events
AccountChain ==
    IF baseContractAddress # NoAddress
    THEN <<Event("creation", "PENDING"), Event("creation", "COMPLETE"),
           Event("initialize", "PENDING"), Event("initialize", "COMPLETE"), EndOfStream>>
    ELSE <<Event("creation", "PENDING"), Event("creation", "COMPLETE"), EndOfStream>>
HandoffChainAfterBatch ==
    <<Event("claimOwnership", "PENDING"), Event("claimOwnership", "COMPLETE"),
      Event("revokeSignerPermissions", "PENDING"),
      Event("revokeSignerPermissions", "COMPLETE"), EndOfStream>>
\* the two confirmations of the batch, in either order, then the chain
FitsHandoffChain(events) ==
    /\ Len(events) <= 2 + Len(HandoffChainAfterBatch)
    /\ \A k \in 1..Len(events) :
          IF k <= 2
          THEN /\ events[k] \in {Event("setData", "COMPLETE"),
                                 Event("transferOwnership", "COMPLETE")}
               /\ \A j \in 1..(k - 1) : events[j] # events[k]
          ELSE events[k] = HandoffChainAfterBatch[k - 2]
PendingBeforeComplete(events) ==
    \A k \in 1..Len(events) :
        (events[k].status = "COMPLETE" /\ events[k].step \notin {"setData", "transferOwnership"})
            => \E j \in 1..(k - 1) : events[j] = Event(events[k].step, "PENDING")

\* C18: in the events delivered to any subscriber, every step's PENDING
\* event precedes its COMPLETE event, and the events come in the order of the
\* chain: creation PENDING, creation COMPLETE, initialize PENDING, initialize
\* COMPLETE on the account stream; the confirmations of setData and
\* transferOwnership, claimOwnership PENDING and COMPLETE, revoke PENDING and
\* COMPLETE on the handoff stream; an error, if any, comes last.
C18_EventsInChainOrder ==
    /\ \A k \in DOMAIN seen.account :
          /\ IsPrefix(BeforeError(seen.account[k]), AccountChain)
          /\ PendingBeforeComplete(seen.account[k])
    /\ \A k \in DOMAIN seen.handoff :
          /\ FitsHandoffChain(BeforeError(seen.handoff[k]))
          /\ PendingBeforeComplete(seen.handoff[k])

\* a subscriber of the account stream of a proxy and a subscriber of the
\* handoff stream that both saw their stream through
C18_Witness ==
    /\ baseContractAddress # NoAddress
    /\ Len(seen.account) = 1 /\ Len(seen.handoff) = 1
    /\ seen.account[1] = AccountChain
    /\ Len(seen.handoff[1]) = 7
    /\ seen.handoff[1][7] = EndOfStream

SameAsFirst(logs) ==
    \A k \in DOMAIN logs :
        /\ IsPrefix(logs[1], logs[k]) \/ IsPrefix(logs[k], logs[1])
        /\ (Terminated(logs[1]) /\ Terminated(logs[k])) => logs[k] = logs[1]
\* C14: every subscriber of a cached stream, whenever it subscribes, is
\* delivered the same events in the same order and the same terminal outcome
\* (the completion, or the same error) as the first subscriber of the stream.
C14_SubscribersSeeSameEvents ==
    SameAsFirst(seen.account) /\ SameAsFirst(seen.handoff)

ErrorSeen ==
    \E k \in DOMAIN seen.account \cup DOMAIN seen.handoff :
        \/ k \in DOMAIN seen.account /\ Terminated(seen.account[k])
                /\ seen.account[k][Len(seen.account[k])].status = "ERROR"
        \/ k \in DOMAIN seen.handoff /\ Terminated(seen.handoff[k])
                /\ seen.handoff[k][Len(seen.handoff[k])].status = "ERROR"
ErrorComesLast(events) ==
    \A k \in 1..Len(events) : events[k].status = "ERROR" => k = Len(events)
\* C15: a subscriber's events end with the error of the failed step and
\* nothing is delivered after it, and once a subscriber has been sent an
\* error no transaction of the run is submitted a second time.
C15_ErrorEndsStreamNoRetry ==
    /\ \A k \in DOMAIN seen.account : ErrorComesLast(seen.account[k])
    /\ \A k \in DOMAIN seen.handoff : ErrorComesLast(seen.handoff[k])
    /\ ErrorSeen =>
          /\ accCreateSub <= 1 /\ initSub <= 1 /\ setDataSub <= 1
          /\ transferSub <= 1 /\ claimSub <= 1 /\ revokeSub <= 1

\* ------------------------------------------------------- deployment mode
\* C21: exactly one deployment mode drives the account deployment. With a
\* base contract address every creation transaction deploys a proxy of it,
\* whatever bytecode is given, and the stream reaches its initialize step
\* and completes only with an initialize call submitted; without one, every
\* creation transaction deploys the bytecode given, or the default contract
\* when none is given, and no initialize call is ever submitted.
C21_OneDeploymentMode ==
    /\ Len(accCreated) = accCreateSub
    /\ baseContractAddress # NoAddress =>
          /\ \A i \in DOMAIN accCreated :
                accCreated[i] = [type |-> "PROXY", code |-> <<"proxy of", baseContractAddress>>]
          /\ acc \in {"initPending", "ok"} => initSub >= 1
    /\ baseContractAddress = NoAddress =>
          /\ \A i \in DOMAIN accCreated :
                /\ accCreated[i].type = "CONTRACT"
                /\ accCreated[i].code =
                      IF bytecode # NoBytecode
                      THEN <<"bytecode", bytecode>>
                      ELSE <<"UniversalProfile__factory", NoBytecode>>
          /\ initSub = 0
          /\ acc \notin {"confirmed", "initPending"}

\* a base contract address and a bytecode both given: the proxy is deployed
\* and initialized, the bytecode unused
C21_Witness ==
    /\ baseContractAddress # NoAddress /\ bytecode # NoBytecode
    /\ accCreateSub = 1 /\ initSub = 1 /\ acc = "ok"
    /\ accCreated[1].type = "PROXY"

\* ----------------------------------------------------- address resolution
SentWithKeyManager == {i \in DOMAIN targets : targets[i].tx # "setData"}

\* C22: all the transactions of the handoff are sent to the same account and
\* with the same key manager: the account of each (setData, transferOwnership,
\* claimOwnership, revoke) is the address prepareSetDataTransaction$ resolved
\* and the address prepareTransferOwnershipTransaction$ resolved, which are
\* equal, and the key manager transferOwnership names is the one the claim
\* and the revoke are sent through, for every receipt shape and both answers
\* of the signer probe.
C22_SameAccountAndKeyManager ==
    /\ \A i \in DOMAIN targets :
          /\ targets[i].account = lsp3AccountAddress
          /\ targets[i].account = erc725AccountAddress
          /\ targets[i].account \notin {NoAddress, Thrown}
    /\ \A i \in DOMAIN targets : \A j \in DOMAIN targets :
          targets[i].account = targets[j].account
    /\ \A i \in SentWithKeyManager :
          /\ targets[i].keyManager = keyManagerAddress
          /\ targets[i].keyManager \notin {NoAddress, Thrown}
    /\ \A i \in SentWithKeyManager : \A j \in SentWithKeyManager :
          targets[i].keyManager = targets[j].keyManager
    /\ setDataSub > 0 => setDataArgs.erc725AccountAddress = lsp3AccountAddress

\* the signer is an identity contract and the account's address is read from
\* the first log of a receipt whose to field names another contract; all
\* four transactions have been sent
C22_Witness ==
    /\ probeAnswer
    /\ accountReceipt = RelayedReceipt(AccountAddress)
    /\ keyManagerReceipt = RelayedReceipt(KeyManagerAddress)
    /\ Len(targets) = 4
    /\ {targets[i].tx : i \in DOMAIN targets}
          = {"setData", "transferOwnership", "claimOwnership", "revokeSignerPermissions"}
    /\ targets[4].account = AccountAddress /\ targets[4].keyManager = KeyManagerAddress

\* ------------------------------------------- encoder and revocation agree
\* the write set of the run holds one pair more than the pairs of the
\* delegate, the array and the controllers: the synthetic signer entry
SyntheticAppended ==
    Len(setDataArgs.keysToSet) = 2 * NumControllers + 5 + ProfilePairs
RevokeWritesEmpty == revokeArgs.value.rights = {}

\* C23 as stated: the encoder appends the synthetic signer entry if and only
\* if the revocation writes the empty bitmask for the signer.
C23_SyntheticIffRevokedToEmpty ==
    revokeSub > 0 => (SyntheticAppended <=> RevokeWritesEmpty)

\* C23 amended: the encoder and the revocation decide on the same test, the
\* signer's address being in the controller list. The synthetic entry is
\* appended if and only if the signer is not listed, and then the revocation
\* writes the empty bitmask; with the signer listed no entry is appended and
\* the revocation writes the bitmask requested with the signer's first
\* entry (the default one for a bare address), which is empty only when the
\* caller asked for no rights.
C23_EncoderAndRevocationAgree ==
    revokeSub > 0 =>
        /\ SyntheticAppended <=> ~SignerIsController
        /\ SyntheticAppended =>
              /\ RevokeWritesEmpty
              /\ setDataArgs.keysToSet[2 * NumControllers + 5] = PermissionsKey(SignerAddress)
        /\ ~SyntheticAppended =>
              /\ Len(setDataArgs.keysToSet) = 2 * NumControllers + 4 + ProfilePairs
              /\ revokeArgs.value.rights = RequestedPermissions(FirstSignerEntry)
              /\ RevokeWritesEmpty <=> RequestedPermissions(FirstSignerEntry) = {}

\* the signer listed with no rights: treated as explicit, no synthetic
\* entry, and the revocation writes the empty bitmask that was asked for
C23_Witness ==
    /\ revokeSub > 0 /\ SignerIsController
    /\ controllers[FirstSignerEntry].kind = "object"
    /\ controllers[FirstSignerEntry].permissions = {}
    /\ ~SyntheticAppended /\ RevokeWritesEmpty

\* ------------------------------------------------------------ termination
\* the log ends with the confirmed revoke and the completion of the stream
DoneSeen(events) ==
    /\ Len(events) >= 2
    /\ events[Len(events) - 1] = Event("revokeSignerPermissions", "COMPLETE")
    /\ events[Len(events)] = EndOfStream

\* C24: when every input stream emits and every transaction submitted is
\* confirmed, a handoff stream that has a subscriber eventually delivers the
\* confirmed revoke event and completes, for every subscriber; no subscriber
\* is sent the completion without the confirmed revoke before it.
C24_HandoffReachesDone ==
    /\ [](\A k \in DOMAIN seen.handoff :
            (Len(seen.handoff[k]) > 0 /\ seen.handoff[k][Len(seen.handoff[k])] = EndOfStream)
                => DoneSeen(seen.handoff[k]))
    /\ (hSubs > 0) ~> (revoke = "confirmed" /\ \A k \in DOMAIN seen.handoff : DoneSeen(seen.handoff[k]))

====
